---- MODULE Spec2Model ----
(***************************************************************************)
(* Wordle solver (script.js): the dictionary loader, the constraint        *)
(* derivation and candidate filter of applyGuessToCandidates, the known-   *)
(* letter board, and the submit / reset handlers.                          *)
(*                                                                         *)
(* A JavaScript string is modelled as a sequence of one-character strings. *)
(* Source positions are 0-based; At(s, i) reads s[i] as the source does.   *)
(***************************************************************************)
EXTENDS Integers, Sequences, FiniteSets, TLC

VARIABLES
    \* ---- application state (closure variables of the DOMContentLoaded handler)
    loadState,        \* "loading" | "ready" | "failed" : progress of loadDictionary()
    dictionary,       \* let dictionary
    dictionarySet,    \* let dictionarySet (isNull until a load succeeds)
    candidates,       \* let candidates
    candidatesIsDictionary,  \* candidates === dictionary (one array object)
    previousGuesses,  \* let previousGuesses (previousGuessesSet is its range)
    knownState,       \* const knownState {greens, yellows, grays}
    statusEl,         \* statusEl.textContent, by message kind
    countEl,          \* countEl.textContent
    buttonsDisabled,  \* submitBtn.disabled / resetBtn.disabled
    localStorage,     \* localStorage[STORAGE_KEY_PREV]: absent (isNull) or the stored array
    accepted,         \* history: (guess, feedback) pairs applied since load/reset
    \* ---- one call of applyGuessToCandidates(guess, feedback, words)
    pc,               \* "idle" | "call" | "done"
    guess,
    feedback,
    words,
    derived,          \* the constraint maps built by the call
    result,
    \* ---- one call of validateAndNormalizeWords(text)
    text,             \* the argument, as its lines (const lines)
    validation        \* the returned { valid, invalid, stats }

appVars == <<loadState, dictionary, dictionarySet, candidates, candidatesIsDictionary,
             previousGuesses,
             knownState, statusEl, countEl, buttonsDisabled, localStorage, accepted>>
callVars == <<pc, guess, feedback, words, derived, result, text, validation>>
vars == <<appVars, callVars>>

(***************************************************************************)
(* Bounds and input universes                                              *)
(***************************************************************************)
MaxWords == 2   \* longest candidate list passed to one filter call
MaxLines == 3   \* most lines of words.txt

WordLen == 5

Null == "null"
Undefined == "undefined"

sassy == <<"s","a","s","s","y">>
yassy == <<"y","a","s","s","y">>
yasay == <<"y","a","s","a","y">>
crate == <<"c","r","a","t","e">>

\* Words the filter is exercised on (as guess and as candidates).
Vocabulary == {sassy, yassy, yasay, crate}

Positions == 0 .. (WordLen - 1)

FeedbackChars == {"G", "Y", "X"}

\* Every well-formed uppercase feedback string.
AllFeedback == [1..WordLen -> FeedbackChars]

RECURSIVE SeqsUpTo(_, _)
SeqsUpTo(S, n) ==
    IF n = 0 THEN {<<>>}
    ELSE LET shorter == SeqsUpTo(S, n - 1)
         IN shorter \cup {Append(s, x) : s \in {t \in shorter : Len(t) = n - 1}, x \in S}

\* Every candidate list of at most MaxWords words.
WordLists == SeqsUpTo(Vocabulary, MaxWords)

\* Longer lists and further guesses: a list of anagrams, and lists in
\* which every, some or no word holds the letter z.
trace == <<"t","r","a","c","e">>
react == <<"r","e","a","c","t">>
cater == <<"c","a","t","e","r">>
zzzzz == <<"z","z","z","z","z">>
zesty == <<"z","e","s","t","y">>

ScenarioGuesses == {crate, react, zzzzz}

ScenarioWordLists ==
    { <<crate, trace, react, cater>>,
      <<zzzzz, zesty>>,
      <<crate, zesty, trace>> }

\* The (guess, words) arguments of the calls examined.
CallInputs == (Vocabulary \X WordLists) \cup (ScenarioGuesses \X ScenarioWordLists)

(***************************************************************************)
(* JavaScript helpers                                                      *)
(***************************************************************************)
\* s[i] of a JS string or array: undefined past the end.
At(s, i) == IF i >= 0 /\ i < Len(s) THEN s[i + 1] ELSE Undefined

\* obj[k] || dflt, obj[k] ?? dflt on a plain object used as a map.
Get(m, k, dflt) == IF k \in DOMAIN m THEN m[k] ELSE dflt

\* obj[k] = v
Put(m, k, v) == [x \in (DOMAIN m) \cup {k} |-> IF x = k THEN v ELSE m[x]]

EmptyMap == [x \in {} |-> 0]

Max(a, b) == IF a >= b THEN a ELSE b

\* String.prototype.includes for a one-character needle.
Includes(s, ch) == \E i \in 1..Len(s) : s[i] = ch

(***************************************************************************)
(* countLetters                                                            *)
(***************************************************************************)
RECURSIVE countLettersFrom(_, _, _)
countLettersFrom(str, i, map) ==
    IF i > Len(str) THEN map
    ELSE countLettersFrom(str, i + 1, Put(map, str[i], Get(map, str[i], 0) + 1))

countLetters(str) == countLettersFrom(str, 1, EmptyMap)

(***************************************************************************)
(* applyGuessToCandidates: derivation of the constraints                   *)
(***************************************************************************)
\* First loop: greens, yellows and the Y+G tally of this guess.
RECURSIVE markLoop(_, _, _, _)
markLoop(gArr, fArr, i, acc) ==
    IF i >= WordLen THEN acc
    ELSE LET ch == At(gArr, i)
             fb == At(fArr, i)
         IN IF fb = "G" THEN
                markLoop(gArr, fArr, i + 1,
                    [acc EXCEPT !.requiredPositions = Put(@, i, ch),
                                !.ygCounts = Put(@, ch, Get(@, ch, 0) + 1)])
            ELSE IF fb = "Y" THEN
                markLoop(gArr, fArr, i + 1,
                    [acc EXCEPT !.forbiddenPositions = Put(@, i, Get(@, i, {}) \cup {ch}),
                                !.ygCounts = Put(@, ch, Get(@, ch, 0) + 1)])
            ELSE markLoop(gArr, fArr, i + 1, acc)

marks(gArr, fArr) ==
    markLoop(gArr, fArr, 0,
        [requiredPositions |-> EmptyMap, forbiddenPositions |-> EmptyMap,
         ygCounts |-> EmptyMap])

\* Variant: a Present mark also pins its letter to the position.
requiredPositions_pinsYellows(gArr, fArr) ==
    [i \in {j \in Positions : At(fArr, j) \in {"G", "Y"}} |-> At(gArr, i)]

requiredPositions(gArr, fArr) == marks(gArr, fArr).requiredPositions

\* Variant: an Absent mark also forbids its letter at the position.
forbiddenPositions_marksGrays(gArr, fArr) ==
    [i \in {j \in Positions : At(fArr, j) \in {"Y", "X"}} |-> {At(gArr, i)}]

forbiddenPositions(gArr, fArr) == marks(gArr, fArr).forbiddenPositions
ygCounts(gArr, fArr) == marks(gArr, fArr).ygCounts

\* Second loop: for X positions, cap the letter count to its Y+G tally.
\* Variant: the tally of the Y/G marks seen before position i only.
allowed_runningTally(gArr, fArr, yg, i) ==
    Cardinality({j \in 0..(i - 1) :
        At(gArr, j) = At(gArr, i) /\ At(fArr, j) \in {"G", "Y"}})

\* const allowed = ygCounts[ch] || 0
allowed(gArr, fArr, yg, i) == Get(yg, At(gArr, i), 0)

\* One iteration of the loop, at position i.
capStep(gArr, fArr, yg, i, maxCounts) ==
    LET ch == At(gArr, i)
    IN IF At(fArr, i) = "X" THEN
           LET a == allowed(gArr, fArr, yg, i)
           IN Put(maxCounts, ch, Max(Get(maxCounts, ch, a), a))
       ELSE maxCounts

RECURSIVE capLoop(_, _, _, _, _)
capLoop(gArr, fArr, yg, i, maxCounts) ==
    IF i >= WordLen THEN maxCounts
    ELSE capLoop(gArr, fArr, yg, i + 1, capStep(gArr, fArr, yg, i, maxCounts))

\* Variant: an Absent mark forbids the letter whatever its Y+G tally.
maxLetterCounts_zeroCap(gArr, fArr) ==
    [ch \in DOMAIN capLoop(gArr, fArr, ygCounts(gArr, fArr), 0, EmptyMap) |-> 0]

\* Variant: a cap is recorded only for letters with no Y/G mark in the guess.
maxLetterCounts_unconfirmedOnly(gArr, fArr) ==
    LET caps == capLoop(gArr, fArr, ygCounts(gArr, fArr), 0, EmptyMap)
    IN [ch \in {c \in DOMAIN caps : caps[c] = 0} |-> 0]

maxLetterCounts(gArr, fArr) == capLoop(gArr, fArr, ygCounts(gArr, fArr), 0, EmptyMap)

\* Variant: the minimum records presence, not the number of Y+G marks.
minLetterCounts_presenceOnly(gArr, fArr) ==
    [ch \in DOMAIN ygCounts(gArr, fArr) |-> 1]

\* Third loop: minimum counts from the Y+G tally.  minLetterCounts starts
\* empty and Object.entries yields each letter once, so every entry is
\* Math.max(cnt, cnt).
minLetterCounts(gArr, fArr) ==
    LET yg == ygCounts(gArr, fArr)
    IN [ch \in DOMAIN yg |-> Max(yg[ch], yg[ch])]

\* The four maps the filter callback closes over.
constraints(gArr, fArr) ==
    [requiredPositions |-> requiredPositions(gArr, fArr),
     forbiddenPositions |-> forbiddenPositions(gArr, fArr),
     minLetterCounts |-> minLetterCounts(gArr, fArr),
     maxLetterCounts |-> maxLetterCounts(gArr, fArr)]

(***************************************************************************)
(* applyGuessToCandidates: the per-candidate predicate                     *)
(***************************************************************************)
\* Variant: a green letter is looked for anywhere in the candidate.
greenCheck_anyPosition(cons, candidate) ==
    \A pos \in DOMAIN cons.requiredPositions :
        Includes(candidate, cons.requiredPositions[pos])

\* 1) Greens at exact positions
greenCheck(cons, candidate) ==
    \A pos \in DOMAIN cons.requiredPositions :
        At(candidate, pos) = cons.requiredPositions[pos]

\* Variant: the yellow check tests presence only.
yellowCheck_presenceOnly(gArr, fArr, candidate) ==
    \A i \in Positions :
        At(fArr, i) = "Y" => Includes(candidate, At(gArr, i))

\* 2) Yellows: present but not at that position
yellowCheck(gArr, fArr, candidate) ==
    \A i \in Positions :
        At(fArr, i) = "Y" =>
            /\ At(candidate, i) # At(gArr, i)
            /\ Includes(candidate, At(gArr, i))

\* Variant: the cap comparison is >= instead of >.
countCheck_strictCap(cons, candidate) ==
    LET candCounts == countLetters(candidate)
    IN /\ \A ch \in DOMAIN cons.minLetterCounts :
              Get(candCounts, ch, 0) >= cons.minLetterCounts[ch]
       /\ \A ch \in DOMAIN cons.maxLetterCounts :
              Get(candCounts, ch, 0) < cons.maxLetterCounts[ch]

\* Variant: the loop over maxLetterCounts is missing.
countCheck_noCap(cons, candidate) ==
    LET candCounts == countLetters(candidate)
    IN \A ch \in DOMAIN cons.minLetterCounts :
           Get(candCounts, ch, 0) >= cons.minLetterCounts[ch]

\* 3) Per-letter min/max counts
countCheck(cons, candidate) ==
    LET candCounts == countLetters(candidate)
    IN /\ \A ch \in DOMAIN cons.minLetterCounts :
              Get(candCounts, ch, 0) >= cons.minLetterCounts[ch]
       /\ \A ch \in DOMAIN cons.maxLetterCounts :
              Get(candCounts, ch, 0) <= cons.maxLetterCounts[ch]

\* 4) Additional yellow positional forbiddance
forbiddenCheck(cons, candidate) ==
    \A i \in Positions :
        ~(i \in DOMAIN cons.forbiddenPositions
          /\ At(candidate, i) \in cons.forbiddenPositions[i])

\* The callback of words.filter: each failed check returns false at once.
keeps(cons, gArr, fArr, candidate) ==
    IF ~greenCheck(cons, candidate) THEN FALSE
    ELSE IF ~yellowCheck(gArr, fArr, candidate) THEN FALSE
    ELSE IF ~countCheck(cons, candidate) THEN FALSE
    ELSE IF ~forbiddenCheck(cons, candidate) THEN FALSE
    ELSE TRUE

\* Variant: kept words are collected in reverse.
RECURSIVE filterFrom_reversed(_, _, _, _, _)
filterFrom_reversed(cons, gArr, fArr, ws, i) ==
    IF i > Len(ws) THEN <<>>
    ELSE IF keeps(cons, gArr, fArr, ws[i])
         THEN filterFrom_reversed(cons, gArr, fArr, ws, i + 1) \o <<ws[i]>>
         ELSE filterFrom_reversed(cons, gArr, fArr, ws, i + 1)

\* Array.prototype.filter
RECURSIVE filterFrom(_, _, _, _, _)
filterFrom(cons, gArr, fArr, ws, i) ==
    IF i > Len(ws) THEN <<>>
    ELSE IF keeps(cons, gArr, fArr, ws[i])
         THEN <<ws[i]>> \o filterFrom(cons, gArr, fArr, ws, i + 1)
         ELSE filterFrom(cons, gArr, fArr, ws, i + 1)

\* Variant: the scan starts at the second word.
applyGuessToCandidates_skipsFirst(g, f, ws) == filterFrom(constraints(g, f), g, f, ws, 2)

\* Variant: an all-Correct feedback answers the guess itself.
applyGuessToCandidates_solved(g, f, ws) ==
    IF \A i \in Positions : At(f, i) = "G" THEN <<g>>
    ELSE filterFrom(constraints(g, f), g, f, ws, 1)

applyGuessToCandidates(g, f, ws) == filterFrom(constraints(g, f), g, f, ws, 1)

(***************************************************************************)
(* String helpers of the handlers and the loader                           *)
(***************************************************************************)
LowerAlphabet ==
    <<"a","b","c","d","e","f","g","h","i","j","k","l","m",
      "n","o","p","q","r","s","t","u","v","w","x","y","z">>
UpperAlphabet ==
    <<"A","B","C","D","E","F","G","H","I","J","K","L","M",
      "N","O","P","Q","R","S","T","U","V","W","X","Y","Z">>

Range(s) == {s[i] : i \in 1..Len(s)}

IsUpper(ch) == \E k \in 1..26 : UpperAlphabet[k] = ch
IsLower(ch) == \E k \in 1..26 : LowerAlphabet[k] = ch

toLowerCase(s) ==
    [i \in 1..Len(s) |->
        IF IsUpper(s[i])
        THEN LowerAlphabet[CHOOSE k \in 1..26 : UpperAlphabet[k] = s[i]]
        ELSE s[i]]

toUpperCase(s) ==
    [i \in 1..Len(s) |->
        IF IsLower(s[i])
        THEN UpperAlphabet[CHOOSE k \in 1..26 : LowerAlphabet[k] = s[i]]
        ELSE s[i]]

IsSpace(ch) == ch \in {" ", "\t"}

\* String.prototype.trim
trim(s) ==
    IF \A i \in 1..Len(s) : IsSpace(s[i]) THEN <<>>
    ELSE LET first == CHOOSE i \in 1..Len(s) :
                          ~IsSpace(s[i]) /\ \A j \in 1..(i - 1) : IsSpace(s[j])
             last == CHOOSE i \in 1..Len(s) :
                          ~IsSpace(s[i]) /\ \A j \in (i + 1)..Len(s) : IsSpace(s[j])
         IN SubSeq(s, first, last)

\* /^[a-z]{5}$/, /^[A-Za-z]{5}$/, /^[GYXgyx]{5}$/
MatchesLower5(s) == Len(s) = WordLen /\ \A i \in 1..Len(s) : IsLower(s[i])

\* Variant: the word-list pattern without the A-Z range.
MatchesLetters5_lowerOnly(s) == Len(s) = WordLen /\ \A i \in 1..Len(s) : IsLower(s[i])

MatchesLetters5(s) == Len(s) = WordLen /\ \A i \in 1..Len(s) : IsLower(s[i]) \/ IsUpper(s[i])
MatchesFeedback5(s) ==
    Len(s) = WordLen /\ \A i \in 1..Len(s) : s[i] \in {"G","Y","X","g","y","x"}

(***************************************************************************)
(* Configuration flags of script.js                                        *)
(***************************************************************************)
REQUIRE_GUESS_IN_DICTIONARY == TRUE

\* Variant: the duplicate check is switched off.
PREVENT_DUPLICATE_GUESSES_off == FALSE

PREVENT_DUPLICATE_GUESSES == TRUE
PERSIST_PREVIOUS_GUESSES == TRUE

\* Variant: reset also clears the previous guesses.
CLEAR_PREVIOUS_GUESSES_ON_RESET_on == TRUE

CLEAR_PREVIOUS_GUESSES_ON_RESET == FALSE

(***************************************************************************)
(* Inputs of the application                                               *)
(***************************************************************************)
\* Lines of words.txt (the result of splitting the response text).
RawLines ==
    { sassy,
      <<"Y","A","S","S","Y">>,
      <<" ","y","a","s","a","y"," ">>,
      <<>>,
      <<"s","a","y">> }

\* Every words.txt of at most MaxLines lines (split() returns at least one).
Texts == SeqsUpTo(RawLines, MaxLines) \ {<<>>}

\* What the user may have typed in the guess box at a click of submit.
RawGuesses ==
    { sassy,
      <<" ","Y","a","s","s","y">>,
      yasay,
      crate,
      <<"s","a","5","s","y">>,
      <<"s","a","y">> }

\* What the user may have typed in the feedback box.
RawFeedbacks ==
    { <<"G","G","G","G","G">>,
      <<"y","g","x","x","g">>,
      <<" ","G","X","X","X","X">>,
      <<"X","X","X","X","X">>,
      <<"Y","G","X","X","G">>,
      <<"G","Y","Z","X","G">>,
      <<"G","G","G">> }

\* A second setting: a word list whose words do not all share their letters,
\* and feedbacks that leave some of them standing.
BoardTexts == { <<crate, sassy, yasay>>, <<sassy, crate>> }

BoardGuesses == {sassy, crate, yasay}

BoardFeedbacks ==
    { <<"X","Y","X","X","X">>,
      <<"X","X","Y","X","X">>,
      <<"Y","G","X","X","G">>,
      <<"G","G","G","G","G">> }

TypedFeedbacks == RawFeedbacks \cup BoardFeedbacks

\* Values found under STORAGE_KEY_PREV when the page opens (parsed JSON).
StoredValues ==
    { [isNull |-> TRUE, array |-> <<>>],
      [isNull |-> FALSE, array |-> << <<" ","S","a","s","s","y">>, <<"s","a","y">> >>] }

(***************************************************************************)
(* Previous-guess persistence                                              *)
(***************************************************************************)
loadPreviousGuesses(raw) ==
    IF ~PERSIST_PREVIOUS_GUESSES THEN <<>>
    ELSE IF raw.isNull THEN <<>>
    ELSE SelectSeq([i \in 1..Len(raw.array) |-> toLowerCase(trim(raw.array[i]))],
                   MatchesLower5)

savePreviousGuesses(storage, guesses) ==
    IF ~PERSIST_PREVIOUS_GUESSES THEN storage ELSE [isNull |-> FALSE, array |-> guesses]

(***************************************************************************)
(* validateAndNormalizeWords                                               *)
(***************************************************************************)
RECURSIVE validateLoop(_, _, _)
validateLoop(lines, i, acc) ==
    IF i > Len(lines) THEN acc
    ELSE LET rawLine == lines[i]
             trimmed == trim(rawLine)
         IN IF trimmed = <<>> THEN
                validateLoop(lines, i + 1, [acc EXCEPT !.emptyCount = @ + 1])
            ELSE IF ~MatchesLetters5(trimmed) THEN
                validateLoop(lines, i + 1, [acc EXCEPT !.invalid = Append(@, rawLine)])
            ELSE LET w == toLowerCase(trimmed)
                 IN IF w \notin acc.seen
                    THEN validateLoop(lines, i + 1,
                             [acc EXCEPT !.seen = @ \cup {w}, !.valid = Append(@, w)])
                    ELSE validateLoop(lines, i + 1, acc)

validateAndNormalizeWords(lines) ==
    LET acc == validateLoop(lines, 1,
                   [valid |-> <<>>, invalid |-> <<>>, seen |-> {}, emptyCount |-> 0])
        duplicateCount == Len(lines) - acc.emptyCount - Len(acc.invalid) - Len(acc.valid)
    IN [valid |-> acc.valid,
        invalid |-> acc.invalid,
        stats |-> [totalLines |-> Len(lines),
                   validCount |-> Len(acc.valid),
                   invalidCount |-> Len(acc.invalid),
                   emptyCount |-> acc.emptyCount,
                   duplicateCount |-> duplicateCount]]

(***************************************************************************)
(* validateInputs, isGuessInDictionary                                     *)
(***************************************************************************)
\* Variant: only the lengths are tested.
validateInputs_lengthOnly(g, f) ==
    IF Len(g) # WordLen THEN "Guess must be 5 letters"
    ELSE IF Len(f) # WordLen THEN "Feedback must be 5 characters using G/Y/X"
    ELSE Null

validateInputs(g, f) ==
    IF ~MatchesLower5(g) THEN "Guess must be 5 letters"
    ELSE IF ~MatchesFeedback5(f) THEN "Feedback must be 5 characters using G/Y/X"
    ELSE Null

\* Variant: every guess counts as a dictionary word.
isGuessInDictionary_anyWord(g, dictSet) == TRUE

isGuessInDictionary(g, dictSet) ==
    IF dictSet.isNull THEN FALSE ELSE g \in dictSet.members

(***************************************************************************)
(* updateKnownStateFromGuess                                               *)
(***************************************************************************)
\* Y+G tally of the guess.
RECURSIVE tallyLoop(_, _, _, _)
tallyLoop(gArr, fArr, i, yg) ==
    IF i >= WordLen THEN yg
    ELSE IF At(fArr, i) = "G" \/ At(fArr, i) = "Y"
         THEN tallyLoop(gArr, fArr, i + 1, Put(yg, At(gArr, i), Get(yg, At(gArr, i), 0) + 1))
         ELSE tallyLoop(gArr, fArr, i + 1, yg)

\* Variant: a G or Y mark leaves the letter among the grays.
RECURSIVE greenYellowLoop_keepsGrays(_, _, _, _)
greenYellowLoop_keepsGrays(gArr, fArr, i, ks) ==
    IF i >= WordLen THEN ks
    ELSE LET ch == At(gArr, i)
             fb == At(fArr, i)
         IN IF fb = "G" THEN
                greenYellowLoop_keepsGrays(gArr, fArr, i + 1,
                    [greens |-> [ks.greens EXCEPT ![i] = ch],
                     yellows |-> ks.yellows \ {ch},
                     grays |-> ks.grays])
            ELSE IF fb = "Y" THEN
                greenYellowLoop_keepsGrays(gArr, fArr, i + 1,
                    [greens |-> ks.greens,
                     yellows |-> ks.yellows \cup {ch},
                     grays |-> ks.grays])
            ELSE greenYellowLoop_keepsGrays(gArr, fArr, i + 1, ks)

\* Apply greens & yellows
RECURSIVE greenYellowLoop(_, _, _, _)
greenYellowLoop(gArr, fArr, i, ks) ==
    IF i >= WordLen THEN ks
    ELSE LET ch == At(gArr, i)
             fb == At(fArr, i)
         IN IF fb = "G" THEN
                greenYellowLoop(gArr, fArr, i + 1,
                    [greens |-> [ks.greens EXCEPT ![i] = ch],
                     yellows |-> ks.yellows \ {ch},
                     grays |-> ks.grays \ {ch}])
            ELSE IF fb = "Y" THEN
                greenYellowLoop(gArr, fArr, i + 1,
                    [greens |-> ks.greens,
                     yellows |-> ks.yellows \cup {ch},
                     grays |-> ks.grays \ {ch}])
            ELSE greenYellowLoop(gArr, fArr, i + 1, ks)

\* Variant: every Absent mark grays its letter.
RECURSIVE grayLoop_everyAbsent(_, _, _, _, _)
grayLoop_everyAbsent(gArr, fArr, yg, i, ks) ==
    IF i >= WordLen THEN ks
    ELSE IF At(fArr, i) = "X"
         THEN grayLoop_everyAbsent(gArr, fArr, yg, i + 1,
                  [ks EXCEPT !.grays = @ \cup {At(gArr, i)}])
         ELSE grayLoop_everyAbsent(gArr, fArr, yg, i + 1, ks)

\* Apply grays
RECURSIVE grayLoop(_, _, _, _, _)
grayLoop(gArr, fArr, yg, i, ks) ==
    IF i >= WordLen THEN ks
    ELSE LET ch == At(gArr, i)
         IN IF At(fArr, i) = "X" THEN
                LET hasYorGInThisGuess == Get(yg, ch, 0) > 0
                    isGreenSomewhere == \E p \in Positions : ks.greens[p] = ch
                    isYellowKnown == ch \in ks.yellows
                IN IF ~hasYorGInThisGuess /\ ~isGreenSomewhere /\ ~isYellowKnown
                   THEN grayLoop(gArr, fArr, yg, i + 1, [ks EXCEPT !.grays = @ \cup {ch}])
                   ELSE grayLoop(gArr, fArr, yg, i + 1, ks)
            ELSE grayLoop(gArr, fArr, yg, i + 1, ks)

updateKnownStateFromGuess(g, f, ks) ==
    grayLoop(g, f, tallyLoop(g, f, 0, EmptyMap), 0, greenYellowLoop(g, f, 0, ks))

(***************************************************************************)
(* Application state at construction                                       *)
(***************************************************************************)
\* countEl before the first renderCandidates()
NotRendered == -1

EmptyKnownState ==
    [greens |-> [i \in Positions |-> Null], yellows |-> {}, grays |-> {}]

\* DOMContentLoaded ran up to the first await of loadDictionary().
AppConstructed ==
    /\ loadState = "loading"
    /\ dictionary = <<>>
    /\ dictionarySet = [isNull |-> TRUE, members |-> {}]
    /\ candidates = <<>>
    /\ candidatesIsDictionary = FALSE
    /\ localStorage \in StoredValues
    /\ previousGuesses = loadPreviousGuesses(localStorage)
    /\ knownState = EmptyKnownState
    /\ statusEl = "Loading word list"
    /\ countEl = NotRendered
    /\ buttonsDisabled = TRUE
    /\ accepted = <<>>

NoConstraints ==
    [requiredPositions |-> EmptyMap, forbiddenPositions |-> EmptyMap,
     minLetterCounts |-> EmptyMap, maxLetterCounts |-> EmptyMap]

NoValidation ==
    [valid |-> <<>>, invalid |-> <<>>,
     stats |-> [totalLines |-> 0, validCount |-> 0, invalidCount |-> 0,
                emptyCount |-> 0, duplicateCount |-> 0]]

NoCall ==
    /\ pc = "idle"
    /\ guess = <<>>
    /\ feedback = <<>>
    /\ words = <<>>
    /\ derived = NoConstraints
    /\ result = <<>>
    /\ text = <<>>
    /\ validation = NoValidation

AppInit == AppConstructed /\ NoCall

(***************************************************************************)
(* loadDictionary                                                          *)
(***************************************************************************)
\* Variant: the buttons are enabled although nothing was loaded.
LoadHttpError_keepsAppUsable ==
    /\ loadState = "loading"
    /\ loadState' = "failed"
    /\ statusEl' = "Failed to load (HTTP)"
    /\ buttonsDisabled' = FALSE
    /\ UNCHANGED <<dictionary, dictionarySet, candidates, candidatesIsDictionary,
                   localStorage, previousGuesses, knownState, countEl, accepted>>
    /\ UNCHANGED callVars

\* fetch resolved with !res.ok
LoadHttpError ==
    /\ loadState = "loading"
    /\ loadState' = "failed"
    /\ statusEl' = "Failed to load (HTTP)"
    /\ UNCHANGED <<dictionary, dictionarySet, candidates, candidatesIsDictionary,
                   localStorage, previousGuesses, knownState, countEl,
                   buttonsDisabled, accepted>>
    /\ UNCHANGED callVars

\* fetch or res.text() rejected
LoadException ==
    /\ loadState = "loading"
    /\ loadState' = "failed"
    /\ statusEl' = "Load error"
    /\ UNCHANGED <<dictionary, dictionarySet, candidates, candidatesIsDictionary,
                   localStorage, previousGuesses, knownState, countEl,
                   buttonsDisabled, accepted>>
    /\ UNCHANGED callVars

\* the response text arrived
LoadText(lines) ==
    /\ loadState = "loading"
    /\ LET v == validateAndNormalizeWords(lines)
       IN IF Len(v.valid) = 0 THEN
              /\ loadState' = "failed"
              /\ statusEl' = "Loaded but found no valid 5-letter words"
              /\ UNCHANGED <<dictionary, dictionarySet, candidates,
                             candidatesIsDictionary, countEl, buttonsDisabled>>
          ELSE
              /\ loadState' = "ready"
              /\ dictionary' = v.valid
              /\ dictionarySet' = [isNull |-> FALSE, members |-> Range(v.valid)]
              /\ candidates' = v.valid
              /\ candidatesIsDictionary' = FALSE
              /\ statusEl' = "Loaded words"
              /\ countEl' = Len(v.valid)
              /\ buttonsDisabled' = FALSE
    /\ UNCHANGED <<localStorage, previousGuesses, knownState, accepted>>
    /\ UNCHANGED callVars

(***************************************************************************)
(* submitBtn click handler                                                 *)
(***************************************************************************)
\* (guessInput.value || '').trim().toLowerCase() and
\* (feedbackInput.value || '').trim().toUpperCase(), tabulated over the inputs.
guessValue == [raw \in RawGuesses |-> toLowerCase(trim(raw))]

\* Variant: the feedback is used as typed, without toUpperCase().
feedbackValue_asTyped == [raw \in TypedFeedbacks |-> trim(raw)]

feedbackValue == [raw \in TypedFeedbacks |-> toUpperCase(trim(raw))]

\* const err = validateInputs(guess, feedback), tabulated over the inputs.
validationError ==
    [input \in RawGuesses \X TypedFeedbacks |->
        validateInputs(guessValue[input[1]], feedbackValue[input[2]])]

Submit(rawGuess, rawFeedback) ==
    /\ ~buttonsDisabled
    /\ LET g == guessValue[rawGuess]
           f == feedbackValue[rawFeedback]
           err == validationError[<<rawGuess, rawFeedback>>]
       IN IF err # Null THEN
              /\ statusEl' = err
              /\ UNCHANGED <<candidates, candidatesIsDictionary, previousGuesses,
                             localStorage, knownState, countEl, accepted>>
          ELSE IF REQUIRE_GUESS_IN_DICTIONARY /\ ~isGuessInDictionary(g, dictionarySet) THEN
              /\ statusEl' = "not in the word list"
              /\ UNCHANGED <<candidates, candidatesIsDictionary, previousGuesses,
                             localStorage, knownState, countEl, accepted>>
          ELSE IF PREVENT_DUPLICATE_GUESSES /\ g \in Range(previousGuesses) THEN
              /\ statusEl' = "already guessed"
              /\ UNCHANGED <<candidates, candidatesIsDictionary, previousGuesses,
                             localStorage, knownState, countEl, accepted>>
          ELSE IF Len(candidates) = 0 /\ Len(dictionary) = 0 THEN
              /\ statusEl' = "No candidates loaded"
              /\ UNCHANGED <<candidates, candidatesIsDictionary, previousGuesses,
                             localStorage, knownState, countEl, accepted>>
          ELSE
              /\ candidates' = applyGuessToCandidates(g, f, candidates)
              /\ candidatesIsDictionary' = FALSE
              /\ previousGuesses' = Append(previousGuesses, g)
              /\ localStorage' = savePreviousGuesses(localStorage, previousGuesses')
              /\ knownState' = updateKnownStateFromGuess(g, f, knownState)
              /\ statusEl' = "Applied"
              /\ countEl' = Len(candidates')
              /\ accepted' = Append(accepted, <<g, f>>)
    /\ UNCHANGED <<loadState, dictionary, dictionarySet, buttonsDisabled>>
    /\ UNCHANGED callVars

(***************************************************************************)
(* resetBtn click handler                                                  *)
(***************************************************************************)
\* Variant: reset leaves the filtered list in place.
ResetCandidates_keepsList ==
    /\ UNCHANGED <<candidates, candidatesIsDictionary>>

\* Variant: candidates = dictionary, without the copy.
ResetCandidates_sharesArray ==
    /\ candidates' = dictionary
    /\ candidatesIsDictionary' = TRUE

\* candidates = [...dictionary]
ResetCandidates ==
    /\ candidates' = dictionary
    /\ candidatesIsDictionary' = FALSE

Reset ==
    /\ ~buttonsDisabled
    /\ ResetCandidates
    /\ IF CLEAR_PREVIOUS_GUESSES_ON_RESET
       THEN /\ previousGuesses' = <<>>
            /\ localStorage' = IF PERSIST_PREVIOUS_GUESSES
                               THEN [isNull |-> TRUE, array |-> <<>>]
                               ELSE localStorage
       ELSE UNCHANGED <<previousGuesses, localStorage>>
    /\ knownState' = EmptyKnownState
    /\ statusEl' = "Reset"
    /\ countEl' = Len(candidates')
    /\ accepted' = <<>>
    /\ UNCHANGED <<loadState, dictionary, dictionarySet, buttonsDisabled>>
    /\ UNCHANGED callVars

(***************************************************************************)
(* applyGuessToCandidates of unnamed/part_001 (feedback upper-cased on     *)
(* entry) and of unnamed/part_003                                          *)
(***************************************************************************)
\* First loop: greens, yellows and the Y+G tally.
RECURSIVE Part001_markLoop(_, _, _, _)
Part001_markLoop(gArr, fArr, i, acc) ==
    IF i >= 5 THEN acc
    ELSE LET ch == At(gArr, i)
             fb == At(fArr, i)
         IN IF fb = "G" THEN
                Part001_markLoop(gArr, fArr, i + 1,
                    [acc EXCEPT !.requiredPositions = Put(@, i, ch),
                                !.ygCounts = Put(@, ch, Get(@, ch, 0) + 1)])
            ELSE IF fb = "Y" THEN
                Part001_markLoop(gArr, fArr, i + 1,
                    [acc EXCEPT !.forbiddenPositions = Put(@, i, Get(@, i, {}) \cup {ch}),
                                !.ygCounts = Put(@, ch, Get(@, ch, 0) + 1)])
            ELSE Part001_markLoop(gArr, fArr, i + 1, acc)

\* Second loop: caps from the X marks.
RECURSIVE Part001_capLoop(_, _, _, _, _)
Part001_capLoop(gArr, fArr, yg, i, maxCounts) ==
    IF i >= 5 THEN maxCounts
    ELSE LET ch == At(gArr, i)
         IN IF At(fArr, i) = "X" THEN
                LET a == Get(yg, ch, 0)
                IN Part001_capLoop(gArr, fArr, yg, i + 1,
                       Put(maxCounts, ch, Max(Get(maxCounts, ch, a), a)))
            ELSE Part001_capLoop(gArr, fArr, yg, i + 1, maxCounts)

\* The four maps, the third loop included.
Part001_constraints(gArr, fArr) ==
    LET m == Part001_markLoop(gArr, fArr, 0,
                 [requiredPositions |-> EmptyMap, forbiddenPositions |-> EmptyMap,
                  ygCounts |-> EmptyMap])
    IN [requiredPositions |-> m.requiredPositions,
        forbiddenPositions |-> m.forbiddenPositions,
        minLetterCounts |-> [ch \in DOMAIN m.ygCounts |-> Max(m.ygCounts[ch], m.ygCounts[ch])],
        maxLetterCounts |-> Part001_capLoop(gArr, fArr, m.ygCounts, 0, EmptyMap)]

\* The callback of words.filter.
Part001_keeps(cons, gArr, fArr, candidate) ==
    LET candCounts == countLetters(candidate)
    IN IF \E pos \in DOMAIN cons.requiredPositions :
              At(candidate, pos) # cons.requiredPositions[pos] THEN FALSE
       ELSE IF \E i \in 0..4 :
                  /\ At(fArr, i) = "Y"
                  /\ (At(candidate, i) = At(gArr, i) \/ ~Includes(candidate, At(gArr, i)))
            THEN FALSE
       ELSE IF \E ch \in DOMAIN cons.minLetterCounts :
                  Get(candCounts, ch, 0) < cons.minLetterCounts[ch] THEN FALSE
       ELSE IF \E ch \in DOMAIN cons.maxLetterCounts :
                  Get(candCounts, ch, 0) > cons.maxLetterCounts[ch] THEN FALSE
       ELSE IF \E i \in 0..4 :
                  /\ i \in DOMAIN cons.forbiddenPositions
                  /\ At(candidate, i) \in cons.forbiddenPositions[i] THEN FALSE
       ELSE TRUE

Part001_applyGuessToCandidates(g, f, ws) ==
    LET gArr == g
        fArr == toUpperCase(f)
        cons == Part001_constraints(gArr, fArr)
    IN SelectSeq(ws, LAMBDA candidate : Part001_keeps(cons, gArr, fArr, candidate))

\* First loop: greens, yellows and the Y+G tally.
RECURSIVE Part003_markLoop(_, _, _, _)
Part003_markLoop(gArr, fArr, i, acc) ==
    IF i >= 5 THEN acc
    ELSE LET ch == At(gArr, i)
             fb == At(fArr, i)
         IN IF fb = "G" THEN
                Part003_markLoop(gArr, fArr, i + 1,
                    [acc EXCEPT !.requiredPositions = Put(@, i, ch),
                                !.ygCounts = Put(@, ch, Get(@, ch, 0) + 1)])
            ELSE IF fb = "Y" THEN
                Part003_markLoop(gArr, fArr, i + 1,
                    [acc EXCEPT !.forbiddenPositions = Put(@, i, Get(@, i, {}) \cup {ch}),
                                !.ygCounts = Put(@, ch, Get(@, ch, 0) + 1)])
            ELSE Part003_markLoop(gArr, fArr, i + 1, acc)

\* Second loop: caps from the X marks.
RECURSIVE Part003_capLoop(_, _, _, _, _)
Part003_capLoop(gArr, fArr, yg, i, maxCounts) ==
    IF i >= 5 THEN maxCounts
    ELSE LET ch == At(gArr, i)
         IN IF At(fArr, i) = "X" THEN
                LET a == Get(yg, ch, 0)
                IN Part003_capLoop(gArr, fArr, yg, i + 1,
                       Put(maxCounts, ch, Max(Get(maxCounts, ch, a), a)))
            ELSE Part003_capLoop(gArr, fArr, yg, i + 1, maxCounts)

\* The four maps, the third loop included.
Part003_constraints(gArr, fArr) ==
    LET m == Part003_markLoop(gArr, fArr, 0,
                 [requiredPositions |-> EmptyMap, forbiddenPositions |-> EmptyMap,
                  ygCounts |-> EmptyMap])
    IN [requiredPositions |-> m.requiredPositions,
        forbiddenPositions |-> m.forbiddenPositions,
        minLetterCounts |-> [ch \in DOMAIN m.ygCounts |-> Max(m.ygCounts[ch], m.ygCounts[ch])],
        maxLetterCounts |-> Part003_capLoop(gArr, fArr, m.ygCounts, 0, EmptyMap)]

\* Variant: the loop over maxLetterCounts is missing.
Part003_keeps_noCap(cons, gArr, fArr, candidate) ==
    LET candCounts == countLetters(candidate)
    IN IF \E pos \in DOMAIN cons.requiredPositions :
              At(candidate, pos) # cons.requiredPositions[pos] THEN FALSE
       ELSE IF \E i \in 0..4 :
                  /\ At(fArr, i) = "Y"
                  /\ (At(candidate, i) = At(gArr, i) \/ ~Includes(candidate, At(gArr, i)))
            THEN FALSE
       ELSE IF \E ch \in DOMAIN cons.minLetterCounts :
                  Get(candCounts, ch, 0) < cons.minLetterCounts[ch] THEN FALSE
       ELSE IF \E i \in 0..4 :
                  /\ i \in DOMAIN cons.forbiddenPositions
                  /\ At(candidate, i) \in cons.forbiddenPositions[i] THEN FALSE
       ELSE TRUE

\* The callback of words.filter.
Part003_keeps(cons, gArr, fArr, candidate) ==
    LET candCounts == countLetters(candidate)
    IN IF \E pos \in DOMAIN cons.requiredPositions :
              At(candidate, pos) # cons.requiredPositions[pos] THEN FALSE
       ELSE IF \E i \in 0..4 :
                  /\ At(fArr, i) = "Y"
                  /\ (At(candidate, i) = At(gArr, i) \/ ~Includes(candidate, At(gArr, i)))
            THEN FALSE
       ELSE IF \E ch \in DOMAIN cons.minLetterCounts :
                  Get(candCounts, ch, 0) < cons.minLetterCounts[ch] THEN FALSE
       ELSE IF \E ch \in DOMAIN cons.maxLetterCounts :
                  Get(candCounts, ch, 0) > cons.maxLetterCounts[ch] THEN FALSE
       ELSE IF \E i \in 0..4 :
                  /\ i \in DOMAIN cons.forbiddenPositions
                  /\ At(candidate, i) \in cons.forbiddenPositions[i] THEN FALSE
       ELSE TRUE

Part003_applyGuessToCandidates(g, f, ws) ==
    LET gArr == g
        fArr == f
        cons == Part003_constraints(gArr, fArr)
    IN SelectSeq(ws, LAMBDA candidate : Part003_keeps(cons, gArr, fArr, candidate))

(***************************************************************************)
(* One call of applyGuessToCandidates on arbitrary inputs                  *)
(***************************************************************************)
FilterInit ==
    /\ AppConstructed
    /\ localStorage.isNull
    /\ pc = "call"
    /\ \E input \in CallInputs : guess = input[1] /\ words = input[2]
    /\ feedback \in AllFeedback
    /\ derived = NoConstraints
    /\ result = <<>>
    /\ text = <<>>
    /\ validation = NoValidation

\* Variant: the rejected words are removed from the list passed in.
Apply_filtersInPlace ==
    /\ pc = "call"
    /\ derived' = constraints(guess, feedback)
    /\ result' = applyGuessToCandidates(guess, feedback, words)
    /\ words' = result'
    /\ pc' = "done"
    /\ UNCHANGED <<guess, feedback, text, validation>>
    /\ UNCHANGED appVars

Apply ==
    /\ pc = "call"
    /\ derived' = constraints(guess, feedback)
    /\ result' = applyGuessToCandidates(guess, feedback, words)
    /\ pc' = "done"
    /\ UNCHANGED <<guess, feedback, words, text, validation>>
    /\ UNCHANGED appVars

(***************************************************************************)
(* One call of validateAndNormalizeWords on an arbitrary text              *)
(***************************************************************************)
ValidateInit ==
    /\ AppConstructed
    /\ localStorage.isNull
    /\ pc = "validate"
    /\ text \in Texts
    /\ validation = NoValidation
    /\ guess = <<>>
    /\ feedback = <<>>
    /\ words = <<>>
    /\ derived = NoConstraints
    /\ result = <<>>

Validate ==
    /\ pc = "validate"
    /\ validation' = validateAndNormalizeWords(text)
    /\ pc' = "validated"
    /\ UNCHANGED <<guess, feedback, words, derived, result, text>>
    /\ UNCHANGED appVars

(***************************************************************************)
(* Specifications                                                          *)
(***************************************************************************)
AppNext ==
    \/ LoadHttpError
    \/ LoadException
    \/ \E lines \in Texts : LoadText(lines)
    \/ \E rawGuess \in RawGuesses, rawFeedback \in RawFeedbacks : Submit(rawGuess, rawFeedback)
    \/ Reset

\* The application: load, then any sequence of submit and reset clicks.
AppSpec == AppInit /\ [][AppNext]_vars

\* The application on the second setting.
BoardNext ==
    \/ \E lines \in BoardTexts : LoadText(lines)
    \/ \E rawGuess \in BoardGuesses, rawFeedback \in BoardFeedbacks :
           Submit(rawGuess, rawFeedback)
    \/ Reset

BoardSpec == AppInit /\ [][BoardNext]_vars

\* The word-list validation alone, on every text of the bounds.
ValidateSpec == ValidateInit /\ [][Validate]_vars

\* The filter alone, on every guess, feedback and candidate list of the bounds.
FilterSpec == FilterInit /\ [][Apply]_vars

\* Both: the application runs while no isolated call is under way.
Init == AppInit \/ FilterInit \/ ValidateInit

Next == (pc = "idle" /\ AppNext) \/ Apply \/ Validate

Spec == Init /\ [][Next]_vars

(***************************************************************************)
(* Reference definitions used by the properties                            *)
(***************************************************************************)
\* Occurrences of ch in w.
Occurrences(w, ch) == Cardinality({i \in 1..Len(w) : w[i] = ch})

\* Canonical Wordle scoring of guess g against secret target t: Correct
\* first, then Present left to right while unconsumed occurrences of the
\* letter remain in the target, else Absent.
Score(g, t) ==
    [i \in 1..WordLen |->
        IF g[i] = t[i] THEN "G"
        ELSE LET ch == g[i]
                 unconsumed == Cardinality({j \in 1..WordLen : t[j] = ch /\ g[j] # ch})
                 earlier == Cardinality({j \in 1..(i - 1) : g[j] = ch /\ t[j] # ch})
             IN IF earlier < unconsumed THEN "Y" ELSE "X"]

\* The elements of ws at the indices in I, in order.
RECURSIVE Pick(_, _, _)
Pick(ws, I, i) ==
    IF i > Len(ws) THEN <<>>
    ELSE IF i \in I THEN <<ws[i]>> \o Pick(ws, I, i + 1)
         ELSE Pick(ws, I, i + 1)

\* sub is ws with some elements removed, the others left in place.
IsSubsequence(sub, ws) == \E I \in SUBSET (1..Len(ws)) : sub = Pick(ws, I, 1)

\* Number of G and Y marks that feedback f puts on letter ch of guess g.
Confirmed(g, f, ch) ==
    Cardinality({i \in 1..WordLen : g[i] = ch /\ f[i] \in {"G", "Y"}})

\* Letters of guess g that feedback f marks with mark.
Marked(g, f, mark) == {g[i] : i \in {j \in 1..WordLen : f[j] = mark}}

(***************************************************************************)
(* C1.  The result of applyGuessToCandidates(guess, feedback, candidates)  *)
(* is exactly the candidates w, in order, for which canonical scoring of   *)
(* guess against w as the secret gives that same feedback.                 *)
(***************************************************************************)
C1_ResultIsExactlyTheConsistentWords ==
    pc = "done" =>
        result = SelectSeq(words, LAMBDA w : Score(guess, w) = feedback)

(***************************************************************************)
(* C2.  Round trip: with feedback = Score(c, w), filtering [w] by          *)
(* (c, feedback) returns [w].                                              *)
(***************************************************************************)
C2_RoundTripKeepsTarget ==
    (pc = "done" /\ Len(words) = 1 /\ feedback = Score(guess, words[1]))
        => result = words

\* A target with a repeated letter, guessed with a word that has one more
\* of it: the extra occurrence is scored Absent and the target is kept.
C2_Witness ==
    /\ pc = "done"
    /\ guess = sassy
    /\ words = <<yassy>>
    /\ feedback = Score(sassy, yassy)
    /\ "X" \in Range(feedback)
    /\ result = <<yassy>>

(***************************************************************************)
(* C3.  After a successful load, under any sequence of submit and reset    *)
(* clicks, the candidate list is the dictionary words, in dictionary       *)
(* order, that pass the filter of every (guess, feedback) pair accepted    *)
(* since the last reset or load; it is a subsequence of the dictionary.    *)
(***************************************************************************)
PassesAll(w, pairs) ==
    \A k \in 1..Len(pairs) :
        keeps(constraints(pairs[k][1], pairs[k][2]), pairs[k][1], pairs[k][2], w)

C3_CandidatesAreTheConsistentDictionaryWords ==
    loadState = "ready" =>
        /\ candidates = SelectSeq(dictionary, LAMBDA w : PassesAll(w, accepted))
        /\ IsSubsequence(candidates, dictionary)

\* Two accepted guesses have narrowed a three-word dictionary to one word.
C3_Witness ==
    /\ loadState = "ready"
    /\ Len(dictionary) = 3
    /\ Len(accepted) = 2
    /\ Len(candidates) = 1

(***************************************************************************)
(* C4.  Monotonic shrinkage: the filter result is no longer than its       *)
(* input and every word of it occurs in the input; hence an accepted       *)
(* submit never increases the candidate count.                             *)
(***************************************************************************)
C4_ResultWithinInput ==
    pc = "done" =>
        /\ Len(result) <= Len(words)
        /\ Range(result) \subseteq Range(words)

C4_SubmitNeverGrows ==
    previousGuesses' # previousGuesses =>
        /\ Len(candidates') <= Len(candidates)
        /\ Range(candidates') \subseteq Range(candidates)

C4_MonotonicShrinkage == []C4_ResultWithinInput /\ [][C4_SubmitNeverGrows]_vars

\* A call that removed one word and kept the other.
C4_Witness ==
    /\ pc = "done"
    /\ Len(words) = 2
    /\ Len(result) = 1
    /\ guess \notin Range(words)

(***************************************************************************)
(* C5.  The filter is stable: the result is a subsequence of the input.    *)
(***************************************************************************)
C5_StableFilter == pc = "done" => IsSubsequence(result, words)

\* Two different words, both kept, in input order.
C5_Witness ==
    /\ pc = "done"
    /\ Len(words) = 2
    /\ words[1] # words[2]
    /\ feedback # <<"X", "X", "X", "X", "X">>
    /\ result = <<words[1], words[2]>>

(***************************************************************************)
(* C6.  maxLetterCounts has an entry for a letter iff the letter has an    *)
(* Absent mark in the guess, and the entry is the number of Correct and    *)
(* Present marks of that letter in the guess.                              *)
(***************************************************************************)
C6_MaxCountIsConfirmedCount ==
    pc = "done" =>
        /\ DOMAIN derived.maxLetterCounts = Marked(guess, feedback, "X")
        /\ \A ch \in DOMAIN derived.maxLetterCounts :
               derived.maxLetterCounts[ch] = Confirmed(guess, feedback, ch)

\* A letter with Correct, Present and Absent marks in one guess.
C6_Witness ==
    /\ pc = "done"
    /\ guess = sassy
    /\ feedback = <<"Y", "X", "G", "X", "X">>
    /\ derived.maxLetterCounts["s"] = 2

(***************************************************************************)
(* C7.  Duplicate-letter cap: a letter with k >= 1 Correct/Present marks   *)
(* and an Absent mark is capped, not forbidden.  Every candidate with more *)
(* than k occurrences is rejected, and a candidate with exactly k that     *)
(* meets the positional checks (and the count bounds of the guess's other  *)
(* letters) is kept.  For "sassy" with Present, Correct, Absent, Absent,   *)
(* Correct the cap of 's' is 1, a word with three s's is rejected and a    *)
(* word with one 's' not at position 0, 'a' at 1 and 'y' at 4 is kept.     *)
(***************************************************************************)
PositionsOK(g, f, w) ==
    \A i \in 1..WordLen :
        /\ f[i] = "G" => w[i] = g[i]
        /\ f[i] = "Y" => w[i] # g[i]

OtherLettersOK(g, f, w, ch) ==
    \A c \in Range(g) \ {ch} :
        /\ Occurrences(w, c) >= Confirmed(g, f, c)
        /\ c \in Marked(g, f, "X") => Occurrences(w, c) <= Confirmed(g, f, c)

SassyFeedback == <<"Y", "G", "X", "X", "G">>

SassyProbes == [1..WordLen -> {"s", "a", "y", "c"}]

CheckHolds(n, w) ==
    CASE n = 1 ->
           \A pos \in DOMAIN derived.requiredPositions :
               w[pos + 1] = derived.requiredPositions[pos]
      [] n = 2 ->
           \A i \in 1..WordLen :
               feedback[i] = "Y" => (w[i] # guess[i] /\ guess[i] \in Range(w))
      [] n = 3 ->
           /\ \A ch \in DOMAIN derived.minLetterCounts :
                  Occurrences(w, ch) >= derived.minLetterCounts[ch]
           /\ \A ch \in DOMAIN derived.maxLetterCounts :
                  Occurrences(w, ch) <= derived.maxLetterCounts[ch]
      [] n = 4 ->
           \A pos \in DOMAIN derived.forbiddenPositions :
               w[pos + 1] \notin derived.forbiddenPositions[pos]

\* Evaluation with an early return at the first failed check of order.
RECURSIVE PassesInOrder(_, _)
PassesInOrder(order, w) ==
    IF order = <<>> THEN TRUE
    ELSE IF ~CheckHolds(Head(order), w) THEN FALSE
    ELSE PassesInOrder(Tail(order), w)

CheckOrders == {o \in [1..4 -> 1..4] : \A a, b \in 1..4 : a # b => o[a] # o[b]}

C8_KeptIffAllFourChecks ==
    pc = "done" =>
        \A order \in CheckOrders :
            result = SelectSeq(words, LAMBDA w : PassesInOrder(order, w))

\* A call in which a word passes the green and yellow checks and is
\* rejected by the count bounds, next to a word that passes all four.
C8_Witness ==
    /\ pc = "done"
    /\ guess = sassy
    /\ feedback = <<"X", "G", "G", "X", "G">>
    /\ words = <<yassy, yasay>>
    /\ CheckHolds(1, yassy) /\ CheckHolds(2, yassy) /\ ~CheckHolds(3, yassy)
    /\ result = <<yasay>>

(***************************************************************************)
(* C9.  minLetterCounts has an entry for exactly the letters with a        *)
(* Correct or Present mark, equal to the number of such marks.             *)
(***************************************************************************)
C9_MinCountIsConfirmedCount ==
    pc = "done" =>
        /\ DOMAIN derived.minLetterCounts =
               Marked(guess, feedback, "G") \cup Marked(guess, feedback, "Y")
        /\ \A ch \in DOMAIN derived.minLetterCounts :
               derived.minLetterCounts[ch] = Confirmed(guess, feedback, ch)

\* One letter confirmed three times, another once, a third not at all.
C9_Witness ==
    /\ pc = "done"
    /\ guess = sassy
    /\ feedback = <<"G", "X", "Y", "Y", "G">>
    /\ derived.minLetterCounts["s"] = 3
    /\ derived.minLetterCounts["y"] = 1
    /\ "a" \notin DOMAIN derived.minLetterCounts

(***************************************************************************)
(* C10.  requiredPositions maps exactly the positions marked Correct to    *)
(* the guess letter there; forbiddenPositions has an entry exactly for the *)
(* positions marked Present, the singleton of the guess letter there;      *)
(* Absent positions contribute to neither.                                 *)
(***************************************************************************)
C10_PositionMapsFollowTheMarks ==
    pc = "done" =>
        /\ DOMAIN derived.requiredPositions = {i \in Positions : feedback[i + 1] = "G"}
        /\ \A i \in DOMAIN derived.requiredPositions :
               derived.requiredPositions[i] = guess[i + 1]
        /\ DOMAIN derived.forbiddenPositions = {i \in Positions : feedback[i + 1] = "Y"}
        /\ \A i \in DOMAIN derived.forbiddenPositions :
               derived.forbiddenPositions[i] = {guess[i + 1]}

\* A feedback with all three marks.
C10_Witness ==
    /\ pc = "done"
    /\ guess = crate
    /\ feedback = <<"G", "Y", "X", "Y", "G">>
    /\ DOMAIN derived.requiredPositions = {0, 4}
    /\ DOMAIN derived.forbiddenPositions = {1, 3}

(***************************************************************************)
(* C11.  Filtering a list that contains the guess once, with all-Correct   *)
(* feedback, returns exactly the guess; ["crate","trace","react","cater"]  *)
(* filtered by "crate" all Correct gives ["crate"].                        *)
(***************************************************************************)
AllCorrect == [i \in 1..WordLen |-> "G"]

C11_AllCorrectLeavesOnlyTheGuess ==
    ( /\ pc = "done"
      /\ feedback = AllCorrect
      /\ Cardinality({n \in 1..Len(words) : words[n] = guess}) = 1 )
        => result = <<guess>>

C11_Witness ==
    /\ pc = "done"
    /\ guess = crate
    /\ feedback = AllCorrect
    /\ words = <<crate, trace, react, cater>>
    /\ result = <<crate>>

(***************************************************************************)
(* C12.  With all-Absent feedback the filter returns, in order, exactly    *)
(* the candidates that contain none of the guess's letters: a list with    *)
(* no such letter is unchanged, a list whose every word has one is emptied.*)
(***************************************************************************)
AllAbsent == [i \in 1..WordLen |-> "X"]

SharesNoLetter(w, g) == Range(w) \cap Range(g) = {}

C12_AllAbsentDropsWordsWithGuessLetters ==
    (pc = "done" /\ feedback = AllAbsent) =>
        /\ result = SelectSeq(words, LAMBDA w : SharesNoLetter(w, guess))
        /\ (\A n \in 1..Len(words) : SharesNoLetter(words[n], guess)) => result = words
        /\ (\A n \in 1..Len(words) : ~SharesNoLetter(words[n], guess)) => result = <<>>

\* "zzzzz" all Absent on a list with one word that holds a z.
C12_Witness ==
    /\ pc = "done"
    /\ guess = zzzzz
    /\ feedback = AllAbsent
    /\ words = <<crate, zesty, trace>>
    /\ result = <<crate, trace>>

\* The two lists of the zzzzz scenario: one unchanged, one emptied.
C12_ScenarioListsReached ==
    /\ pc = "done"
    /\ guess = zzzzz
    /\ feedback = AllAbsent
    /\ \/ words = <<crate, trace, react, cater>> /\ result = words
       \/ words = <<zzzzz, zesty>> /\ result = <<>>

(***************************************************************************)
(* C13.  As stated: for a guess of five distinct letters with all-Absent   *)
(* feedback, the derived constraints have empty requiredPositions, empty   *)
(* forbiddenPositions, empty minLetterCounts and empty maxLetterCounts.    *)
(***************************************************************************)
DistinctLetters(g) == Cardinality(Range(g)) = WordLen

C13_AllAbsentDerivesNoConstraints ==
    (pc = "done" /\ feedback = AllAbsent /\ DistinctLetters(guess)) =>
        /\ DOMAIN derived.requiredPositions = {}
        /\ DOMAIN derived.forbiddenPositions = {}
        /\ DOMAIN derived.minLetterCounts = {}
        /\ DOMAIN derived.maxLetterCounts = {}

(***************************************************************************)
(* C13, amended.  For a guess of five distinct letters with all-Absent     *)
(* feedback, requiredPositions, forbiddenPositions and minLetterCounts are *)
(* empty, and maxLetterCounts caps each of the five guess letters at 0.    *)
(***************************************************************************)
C13_AllAbsentDerivesOnlyZeroCaps ==
    (pc = "done" /\ feedback = AllAbsent /\ DistinctLetters(guess)) =>
        /\ DOMAIN derived.requiredPositions = {}
        /\ DOMAIN derived.forbiddenPositions = {}
        /\ DOMAIN derived.minLetterCounts = {}
        /\ derived.maxLetterCounts = [ch \in Range(guess) |-> 0]

C13_Witness ==
    /\ pc = "done"
    /\ guess = crate
    /\ feedback = AllAbsent
    /\ Cardinality(DOMAIN derived.maxLetterCounts) = WordLen

(***************************************************************************)
(* C14.  Immediately after a successful dictionary load, and immediately   *)
(* after every reset whatever guesses were submitted before it, the        *)
(* candidate list equals the dictionary: same words, same order.           *)
(***************************************************************************)
C14_LoadAndResetRestoreTheDictionary ==
    /\ statusEl \in {"Loaded words", "Reset"} =>
           /\ loadState = "ready"
           /\ candidates = dictionary
           /\ countEl = Len(dictionary)
    /\ (loadState = "ready" /\ accepted = <<>>) => candidates = dictionary

\* A reset after at least one applied guess, with a dictionary of two words.
C14_Witness ==
    /\ statusEl = "Reset"
    /\ Len(previousGuesses) >= 2
    /\ Len(dictionary) >= 2
    /\ candidates = dictionary

(***************************************************************************)
(* C15.  An empty filter result is a normal outcome and a terminal state:  *)
(* a submit that eliminates every candidate completes without an error     *)
(* and leaves the candidate list empty, and from then on every further     *)
(* accepted submit leaves it empty until a reset.                          *)
(***************************************************************************)
C15_AcceptedSubmitCompletes ==
    previousGuesses' # previousGuesses =>
        /\ statusEl' = "Applied"
        /\ countEl' = Len(candidates')
        /\ SelectSeq(candidates, LAMBDA w : PassesAll(w, <<accepted'[Len(accepted')]>>)) = <<>>
               => candidates' = <<>>

C15_EmptyStaysEmptyUntilReset ==
    (loadState = "ready" /\ candidates = <<>> /\ ~Reset) => candidates' = <<>>

C15_EmptyResultIsTerminal ==
    [][C15_AcceptedSubmitCompletes /\ C15_EmptyStaysEmptyUntilReset]_vars

\* The first applied guess emptied the list; a second guess was then applied.
C15_Witness ==
    /\ loadState = "ready"
    /\ Len(dictionary) >= 2
    /\ Len(accepted) = 2
    /\ SelectSeq(dictionary, LAMBDA w : PassesAll(w, <<accepted[1]>>)) = <<>>
    /\ candidates = <<>>
    /\ statusEl = "Applied"
    /\ countEl = 0

(***************************************************************************)
(* C16.  The dictionary is frozen after loading: no submit, accepted or    *)
(* rejected, and no reset changes its contents or order, and neither the   *)
(* filter nor reset makes the candidate list the dictionary array itself.  *)
(***************************************************************************)
C16_DictionaryUnchanged ==
    loadState = "ready" =>
        /\ dictionary' = dictionary
        /\ dictionarySet' = dictionarySet

C16_DictionaryFrozen ==
    [][C16_DictionaryUnchanged]_vars /\ [](~candidatesIsDictionary)

\* A guess applied after an earlier reset: three guesses in all, one since
\* the reset, and the list narrowed below the dictionary.
C16_Witness ==
    /\ loadState = "ready"
    /\ Len(previousGuesses) >= 3
    /\ Len(accepted) = 1
    /\ statusEl = "Applied"
    /\ Len(candidates) < Len(dictionary)
    /\ ~candidatesIsDictionary

(***************************************************************************)
(* C17.  applyGuessToCandidates is pure: the call does not modify the list *)
(* passed to it, changes no application state, and its result is a         *)
(* function of its arguments alone, so equal arguments give equal results. *)
(***************************************************************************)
C17_CallLeavesArgumentsAndState ==
    pc = "call" =>
        /\ words' = words
        /\ guess' = guess
        /\ feedback' = feedback
        /\ appVars' = appVars

C17_ResultDependsOnArgumentsOnly ==
    pc = "done" =>
        result = SelectSeq(words,
                     LAMBDA w : keeps(constraints(guess, feedback), guess, feedback, w))

C17_FilterIsPure ==
    [][C17_CallLeavesArgumentsAndState]_vars /\ []C17_ResultDependsOnArgumentsOnly

\* A call that kept one of the four words passed, which are still all there.
C17_Witness ==
    /\ pc = "done"
    /\ guess = crate
    /\ words = <<crate, trace, react, cater>>
    /\ result = <<cater>>

(***************************************************************************)
(* C18.  A submit whose guess is not exactly 5 letters a-z, or whose       *)
(* feedback is not exactly 5 characters from G, Y, X, is rejected with an  *)
(* error message: the filter is not run and the candidate list, the guess  *)
(* history and the known-letter state are unchanged.                       *)
(***************************************************************************)
WellFormedGuess(g) ==
    Len(g) = WordLen /\ \A i \in 1..Len(g) : g[i] \in Range(LowerAlphabet)

WellFormedFeedback(f) ==
    Len(f) = WordLen /\ \A i \in 1..Len(f) : f[i] \in FeedbackChars

FormatErrors ==
    {"Guess must be 5 letters", "Feedback must be 5 characters using G/Y/X"}

\* The typed (guess, feedback) pairs that are malformed once read.
MalformedInputs ==
    {input \in RawGuesses \X RawFeedbacks :
        ~(WellFormedGuess(guessValue[input[1]])
            /\ WellFormedFeedback(feedbackValue[input[2]]))}

\* The outcome of a refused submit: a format message, nothing else touched.
C18_Refusal ==
    /\ statusEl' \in FormatErrors
    /\ UNCHANGED <<candidates, candidatesIsDictionary, previousGuesses, localStorage,
                   knownState, accepted, countEl, dictionary, dictionarySet>>

\* Once the buttons are enabled, a click of submit on a malformed input can
\* run, and every way it can run is a refusal.
C18_MalformedInputChangesNothing ==
    ~buttonsDisabled =>
        \A input \in MalformedInputs :
            /\ ENABLED (Submit(input[1], input[2]) /\ C18_Refusal)
            /\ ~ENABLED (Submit(input[1], input[2]) /\ ~C18_Refusal)

\* A malformed feedback was refused after one guess had been applied.
C18_Witness ==
    /\ loadState = "ready"
    /\ Len(accepted) = 1
    /\ Len(candidates) = 1
    /\ statusEl = "Feedback must be 5 characters using G/Y/X"

\* A malformed guess was refused after one guess had been applied.
C18_GuessRefusedReached ==
    /\ loadState = "ready"
    /\ Len(accepted) = 1
    /\ statusEl = "Guess must be 5 letters"

(***************************************************************************)
(* C19.  The feedback encoding is case-insensitive: a feedback typed in    *)
(* lowercase or mixed case (g, y, x) gives the same constraints and the    *)
(* same filtered list as the same feedback typed in uppercase.             *)
(***************************************************************************)
FoldCase(c) ==
    IF c = "g" THEN "G" ELSE IF c = "y" THEN "Y" ELSE IF c = "x" THEN "X" ELSE c

\* Pairs of typed feedbacks that differ only in the case of g, y, x.
CaseVariants ==
    {pair \in RawFeedbacks \X RawFeedbacks :
        /\ pair[1] # pair[2]
        /\ Len(pair[1]) = Len(pair[2])
        /\ \A i \in 1..Len(pair[1]) : FoldCase(pair[1][i]) = FoldCase(pair[2][i])}

\* Whatever a submit of one spelling does, a submit of the other does too:
\* the same list, history, known letters and message.
C19_FeedbackCaseInsensitive ==
    ~buttonsDisabled =>
        \A rawGuess \in RawGuesses, pair \in CaseVariants :
            /\ ENABLED Submit(rawGuess, pair[1])
            /\ ~ENABLED (Submit(rawGuess, pair[1]) /\ ~Submit(rawGuess, pair[2]))

\* "sassy" with Present, Correct, Absent, Absent, Correct applied to a
\* dictionary of three words, of which only "yasay" remains.
C19_Witness ==
    /\ CaseVariants # {}
    /\ Len(dictionary) = 3
    /\ accepted = << <<sassy, <<"Y","G","X","X","G">> >> >>
    /\ candidates = <<yasay>>
    /\ statusEl = "Applied"

(***************************************************************************)
(* C20.  A well-formed guess that is not a word of the loaded dictionary   *)
(* is rejected as invalid: the filter is not applied, the candidate list   *)
(* and the known-letter state are unchanged, and the guess is not added to *)
(* the guess history.                                                      *)
(***************************************************************************)
\* The typed (guess, feedback) pairs that are well formed once read.
WellFormedInputs == (RawGuesses \X RawFeedbacks) \ MalformedInputs

C20_Refusal ==
    /\ statusEl' = "not in the word list"
    /\ UNCHANGED <<candidates, candidatesIsDictionary, previousGuesses, localStorage,
                   knownState, accepted, countEl, dictionary, dictionarySet>>

C20_UnknownWordRejected ==
    ~buttonsDisabled =>
        \A input \in WellFormedInputs :
            guessValue[input[1]] \notin Range(dictionary) =>
                /\ ENABLED (Submit(input[1], input[2]) /\ C20_Refusal)
                /\ ~ENABLED (Submit(input[1], input[2]) /\ ~C20_Refusal)

\* "yasay", a word the loaded dictionary lacks, was refused after one guess
\* had been applied.
C20_Witness ==
    /\ loadState = "ready"
    /\ yasay \notin Range(dictionary)
    /\ Len(dictionary) = 2
    /\ Len(accepted) = 1
    /\ statusEl = "not in the word list"

(***************************************************************************)
(* C21.  Duplicate-guess prevention: a submit whose guess is already in    *)
(* the guess history is rejected, whatever feedback accompanies it, and    *)
(* leaves candidates, history and known letters unchanged; every accepted  *)
(* submit appends its guess to the history exactly once, so no word is     *)
(* applied to the candidate list twice.                                    *)
(***************************************************************************)
RefusalMessages ==
    FormatErrors \cup {"not in the word list", "already guessed"}

C21_Refusal ==
    /\ statusEl' \in RefusalMessages
    /\ UNCHANGED <<candidates, candidatesIsDictionary, previousGuesses, localStorage,
                   knownState, accepted, countEl, dictionary, dictionarySet>>

C21_RepeatedGuessRefused ==
    ~buttonsDisabled =>
        \A input \in RawGuesses \X RawFeedbacks :
            guessValue[input[1]] \in Range(previousGuesses) =>
                /\ ENABLED (Submit(input[1], input[2]) /\ C21_Refusal)
                /\ ~ENABLED (Submit(input[1], input[2]) /\ ~C21_Refusal)

NoRepeats(s) == \A i, j \in 1..Len(s) : s[i] = s[j] => i = j

C21_HistoryHasNoRepeats ==
    /\ NoRepeats(previousGuesses)
    /\ NoRepeats([k \in 1..Len(accepted) |-> accepted[k][1]])
    /\ \A k \in 1..Len(accepted) : accepted[k][1] \in Range(previousGuesses)

\* An applied guess is appended once, and was not in the history before.
C21_AcceptedGuessAppendedOnce ==
    (accepted' # accepted /\ accepted' # <<>>) =>
        /\ Len(accepted') = Len(accepted) + 1
        /\ previousGuesses' = Append(previousGuesses, accepted'[Len(accepted')][1])
        /\ accepted'[Len(accepted')][1] \notin Range(previousGuesses)
        /\ localStorage'.array = previousGuesses'

C21_DuplicateGuessPrevention ==
    /\ [](C21_RepeatedGuessRefused /\ C21_HistoryHasNoRepeats)
    /\ [][C21_AcceptedGuessAppendedOnce]_vars

\* A word applied earlier in the session was submitted again and refused.
C21_Witness ==
    /\ loadState = "ready"
    /\ statusEl = "already guessed"
    /\ Len(accepted) = 2
    /\ Len(candidates) >= 1

(***************************************************************************)
(* C22.  With CLEAR_PREVIOUS_GUESSES_ON_RESET = false a reset restores the *)
(* candidate list and clears the known-letter state but leaves the guess   *)
(* history unchanged, so a word accepted before the reset is still         *)
(* rejected as a duplicate after it.                                       *)
(***************************************************************************)
C22_ResetOutcome ==
    /\ candidates' = dictionary
    /\ knownState' = EmptyKnownState
    /\ previousGuesses' = previousGuesses
    /\ localStorage' = localStorage

C22_ResetKeepsHistory ==
    ~buttonsDisabled =>
        /\ ENABLED (Reset /\ C22_ResetOutcome)
        /\ ~ENABLED (Reset /\ ~C22_ResetOutcome)

C22_DuplicateRefusal ==
    /\ statusEl' = "already guessed"
    /\ UNCHANGED <<candidates, previousGuesses, localStorage, knownState, accepted>>

\* Right after a reset, every dictionary word of the history is refused.
C22_StillDuplicateAfterReset ==
    statusEl = "Reset" =>
        \A input \in WellFormedInputs :
            ( /\ guessValue[input[1]] \in Range(previousGuesses)
              /\ guessValue[input[1]] \in Range(dictionary) )
                => /\ ENABLED (Submit(input[1], input[2]) /\ C22_DuplicateRefusal)
                   /\ ~ENABLED (Submit(input[1], input[2]) /\ ~C22_DuplicateRefusal)

C22_ResetLeavesGuessHistory == C22_ResetKeepsHistory /\ C22_StillDuplicateAfterReset

\* After a reset, with three words in the history, a word was refused as a
\* duplicate while the list is the whole dictionary again.
C22_Witness ==
    /\ loadState = "ready"
    /\ statusEl = "already guessed"
    /\ accepted = <<>>
    /\ Len(previousGuesses) = 3
    /\ Len(dictionary) = 3
    /\ candidates = dictionary

(***************************************************************************)
(* C23.  validateAndNormalizeWords returns as valid exactly the distinct   *)
(* lowercased words of the lines that, trimmed, are exactly 5 ASCII        *)
(* letters, each once and in order of first occurrence; empty and all      *)
(* other lines are excluded; and totalLines = validCount + invalidCount +  *)
(* emptyCount + duplicateCount.                                            *)
(***************************************************************************)
AsciiLetters == Range(LowerAlphabet) \cup Range(UpperAlphabet)

FiveLetters(line) ==
    Len(trim(line)) = WordLen /\ \A i \in 1..WordLen : trim(line)[i] \in AsciiLetters

\* The lowercased words of the five-letter lines, in order, repeats included.
WordsOf(ls) ==
    LET kept == SelectSeq(ls, FiveLetters)
    IN [k \in 1..Len(kept) |-> toLowerCase(trim(kept[k]))]

\* s without the later occurrences of its elements.
FirstOccurrences(s) ==
    Pick(s, {i \in 1..Len(s) : \A j \in 1..(i - 1) : s[j] # s[i]}, 1)

C23_ValidIsTheDistinctFiveLetterWords ==
    pc = "validated" =>
        /\ validation.valid = FirstOccurrences(WordsOf(text))
        /\ NoRepeats(validation.valid)
        /\ validation.stats.totalLines = Len(text)
        /\ validation.stats.validCount = Len(validation.valid)
        /\ validation.stats.totalLines =
               validation.stats.validCount + validation.stats.invalidCount
                 + validation.stats.emptyCount + validation.stats.duplicateCount

\* An uppercase word, a repeated word and an empty line: one of each count.
C23_Witness ==
    /\ pc = "validated"
    /\ text = << <<"Y","A","S","S","Y">>, <<>>, <<"Y","A","S","S","Y">> >>
    /\ validation.valid = <<yassy>>
    /\ validation.stats.emptyCount = 1
    /\ validation.stats.duplicateCount = 1

(***************************************************************************)
(* C24.  Within one guess all Absent occurrences of a letter compute the   *)
(* same cap: at each X position the value allowed equals the value already *)
(* stored in maxLetterCounts for that letter, if any, so taking the        *)
(* maximum never changes a stored cap.                                     *)
(***************************************************************************)
\* maxLetterCounts as the loop finds it on entering iteration i.
RECURSIVE CapsBefore(_, _, _)
CapsBefore(g, f, i) ==
    IF i = 0 THEN EmptyMap
    ELSE capStep(g, f, ygCounts(g, f), i - 1, CapsBefore(g, f, i - 1))

C24_MaxNeverChangesACap ==
    pc = "done" =>
        /\ CapsBefore(guess, feedback, WordLen) = derived.maxLetterCounts
        /\ \A i \in Positions :
               LET stored == CapsBefore(guess, feedback, i)
                   ch == At(guess, i)
               IN (At(feedback, i) = "X" /\ ch \in DOMAIN stored) =>
                      /\ allowed(guess, feedback, ygCounts(guess, feedback), i) = stored[ch]
                      /\ capStep(guess, feedback, ygCounts(guess, feedback), i, stored) = stored

\* Two Absent marks on s after a Present one: the second finds the cap 1 stored.
C24_Witness ==
    /\ pc = "done"
    /\ guess = sassy
    /\ feedback = <<"Y", "G", "X", "X", "G">>
    /\ CapsBefore(guess, feedback, 3) = [ch \in {"s"} |-> 1]
    /\ derived.maxLetterCounts = [ch \in {"s"} |-> 1]

(***************************************************************************)
(* C25.  Submit and reset are enabled only after a dictionary load has     *)
(* succeeded with at least one valid word: wherever the buttons are        *)
(* enabled the dictionary is non-empty and the candidates come from it;    *)
(* after a failed load (HTTP error, exception, no valid word) the buttons  *)
(* stay disabled forever; the "No candidates loaded" branch is never taken.*)
(***************************************************************************)
C25_EnabledMeansLoaded ==
    /\ ~buttonsDisabled =>
           /\ loadState = "ready"
           /\ Len(dictionary) >= 1
           /\ ~dictionarySet.isNull
           /\ IsSubsequence(candidates, dictionary)
           /\ countEl = Len(candidates)
    /\ loadState # "ready" =>
           /\ buttonsDisabled
           /\ dictionary = <<>>
           /\ candidates = <<>>
    /\ statusEl # "No candidates loaded"

C25_FailedLoadIsFinal ==
    loadState = "failed" => (loadState' = "failed" /\ buttonsDisabled')

C25_ButtonsFollowTheLoad == []C25_EnabledMeansLoaded /\ [][C25_FailedLoadIsFinal]_vars

\* A word list with lines but no valid word: the load failed.
C25_Witness ==
    /\ loadState = "failed"
    /\ statusEl = "Loaded but found no valid 5-letter words"
    /\ buttonsDisabled
    /\ dictionary = <<>>

\* The three ways a load fails, and the enabled state, are all reached.
C25_HttpFailureReached == loadState = "failed" /\ statusEl = "Failed to load (HTTP)"

C25_LoadExceptionReached == loadState = "failed" /\ statusEl = "Load error"

(***************************************************************************)
(* C26.  Known-letter state: after any accepted submits and resets no      *)
(* letter of grays is in yellows or at a position of greens; a letter      *)
(* enters grays only through an X mark, when it has no G/Y mark in that    *)
(* guess and is not known green or yellow at that moment; and any G or Y   *)
(* mark on a letter removes it from grays.                                 *)
(***************************************************************************)
GreenLetters(ks) == {ks.greens[p] : p \in Positions} \ {Null}

C26_GraysApart ==
    /\ knownState.grays \cap knownState.yellows = {}
    /\ knownState.grays \cap GreenLetters(knownState) = {}

C26_GraysChangeByTheMarks ==
    IF accepted' # accepted /\ accepted' # <<>>
    THEN LET g == accepted'[Len(accepted')][1]
             f == accepted'[Len(accepted')][2]
         IN /\ \A ch \in knownState'.grays \ knownState.grays :
                   /\ \E i \in 1..WordLen : g[i] = ch /\ f[i] = "X"
                   /\ \A i \in 1..WordLen : g[i] = ch => f[i] = "X"
                   /\ ch \notin knownState'.yellows
                   /\ ch \notin GreenLetters(knownState')
            /\ \A ch \in knownState.grays \ knownState'.grays :
                   \E i \in 1..WordLen : g[i] = ch /\ f[i] \in {"G", "Y"}
            /\ \A i \in 1..WordLen : f[i] \in {"G", "Y"} => g[i] \notin knownState'.grays
    ELSE knownState' = knownState \/ knownState' = EmptyKnownState

C26_KnownLetterState == []C26_GraysApart /\ [][C26_GraysChangeByTheMarks]_vars

\* "sassy" then "yassy", both Correct at 0 and Absent after: y left the
\* grays for green, and s, green no longer, joined them.
C26_Witness ==
    /\ accepted = << <<sassy, <<"G","X","X","X","X">> >>,
                     <<yassy, <<"G","X","X","X","X">> >> >>
    /\ knownState.greens[0] = "y"
    /\ knownState.grays = {"a", "s"}
    /\ knownState.yellows = {}

(***************************************************************************)
(* C27.  The duplicated filter variants are equivalent: for every guess,   *)
(* every uppercase G/Y/X feedback and every word list, the                 *)
(* applyGuessToCandidates of unnamed/part_001 and of unnamed/part_003      *)
(* return the same list as the one of script.js.                           *)
(***************************************************************************)
C27_VariantsAgree ==
    pc = "done" =>
        /\ Part001_applyGuessToCandidates(guess, feedback, words) = result
        /\ Part003_applyGuessToCandidates(guess, feedback, words) = result
        /\ Part001_constraints(guess, feedback) = derived
        /\ Part003_constraints(guess, feedback) = derived

\* A duplicate-letter cap at work in all three: "yassy" goes, "yasay" stays.
C27_Witness ==
    /\ pc = "done"
    /\ guess = sassy
    /\ feedback = <<"Y", "G", "X", "X", "G">>
    /\ words = <<yassy, yasay>>
    /\ result = <<yasay>>
    /\ Part001_applyGuessToCandidates(guess, feedback, words) = <<yasay>>
    /\ Part003_applyGuessToCandidates(guess, feedback, words) = <<yasay>>

(***************************************************************************)
(* C28.  The known-letter board is consistent with the candidate list: in  *)
(* every state reached by accepted submits and resets, every remaining     *)
(* candidate has greens[i] at each position i where it is set, contains    *)
(* every letter of yellows and contains no letter of grays.                *)
(***************************************************************************)
C28_BoardFitsCandidates ==
    \A n \in 1..Len(candidates) :
        /\ \A i \in Positions :
               knownState.greens[i] # Null => At(candidates[n], i) = knownState.greens[i]
        /\ knownState.yellows \subseteq Range(candidates[n])
        /\ knownState.grays \cap Range(candidates[n]) = {}

\* "sassy" with only a Present: s and y are gray, a is yellow, and "crate"
\* is the word left.
C28_Witness ==
    /\ dictionary = <<crate, sassy, yasay>>
    /\ accepted = << <<sassy, <<"X","Y","X","X","X">> >> >>
    /\ knownState.grays = {"s", "y"}
    /\ knownState.yellows = {"a"}
    /\ candidates = <<crate>>

\* Greens on the board with a word left.
C28_GreensReached ==
    /\ Len(candidates) >= 1
    /\ knownState.greens[1] = "a"
    /\ knownState.yellows # {}

(***************************************************************************)
(* C29.  Applying guesses commutes and is idempotent: for any two (guess,  *)
(* feedback) pairs A and B and any list L, filtering L by A then B gives   *)
(* the same list as by B then A, and filtering by A twice the same list    *)
(* as once.                                                                *)
(***************************************************************************)
\* The second pairs B tried against every call A of the specification.
OtherPairs ==
    { <<sassy, <<"Y","G","X","X","G">> >>,
      <<yassy, <<"X","G","G","G","G">> >>,
      <<yasay, <<"G","G","Y","X","G">> >>,
      <<crate, <<"X","X","X","X","X">> >>,
      <<crate, <<"Y","Y","G","Y","Y">> >>,
      <<react, <<"Y","Y","G","Y","Y">> >>,
      <<zzzzz, <<"X","X","X","X","X">> >>,
      <<zesty, <<"X","G","X","Y","X">> >> }

C29_CommutesAndIdempotent ==
    pc = "done" =>
        /\ applyGuessToCandidates(guess, feedback, result) = result
        /\ \A B \in OtherPairs :
               applyGuessToCandidates(B[1], B[2], result)
                 = applyGuessToCandidates(guess, feedback,
                       applyGuessToCandidates(B[1], B[2], words))

\* A = "zzzzz" all Absent drops "zesty"; B = "react" with a Correct and
\* the rest Present drops "trace" as well; either order leaves "crate".
C29_Witness ==
    /\ pc = "done"
    /\ guess = zzzzz
    /\ feedback = <<"X","X","X","X","X">>
    /\ words = <<crate, zesty, trace>>
    /\ result = <<crate, trace>>
    /\ applyGuessToCandidates(react, <<"Y","Y","G","Y","Y">>, words) = <<crate>>
    /\ applyGuessToCandidates(react, <<"Y","Y","G","Y","Y">>, result) = <<crate>>

(***************************************************************************)
(* C30.  The fourth filter phase is redundant: forbiddenPositions[i] only  *)
(* ever holds guess[i], for the positions marked Y, so a candidate that    *)
(* passes the yellow check also passes the positional-forbiddance check,   *)
(* and removing phase 4 changes the result for no guess, feedback or list. *)
(***************************************************************************)
\* Every word of the lists and guesses examined.
KnownWords == Vocabulary \cup ScenarioGuesses \cup {trace, cater, zesty}

\* The callback without its fourth check.
KeepsByThreeChecks(cons, g, f, w) ==
    greenCheck(cons, w) /\ yellowCheck(g, f, w) /\ countCheck(cons, w)

C30_FourthPhaseRedundant ==
    pc = "done" =>
        /\ DOMAIN derived.forbiddenPositions = {i \in Positions : At(feedback, i) = "Y"}
        /\ \A i \in DOMAIN derived.forbiddenPositions :
               derived.forbiddenPositions[i] = {At(guess, i)}
        /\ \A w \in KnownWords :
               yellowCheck(guess, feedback, w) => forbiddenCheck(derived, w)
        /\ result = SelectSeq(words,
                        LAMBDA w : KeepsByThreeChecks(derived, guess, feedback, w))

\* "sassy" with Present at 0 against a list with "sassy": the fourth check
\* would refuse the word, which the yellow check has refused already.
C30_Witness ==
    /\ pc = "done"
    /\ guess = sassy
    /\ feedback = <<"Y", "G", "G", "G", "G">>
    /\ words = <<sassy, yassy>>
    /\ greenCheck(derived, sassy)
    /\ ~yellowCheck(guess, feedback, sassy)
    /\ ~forbiddenCheck(derived, sassy)
    /\ result = <<>>

====
